---- MODULE Spec2Model ----
(***************************************************************************)
(* Model of the discount scraper server (src/server.js; src/unnamed/       *)
(* part_000 is the earlier variant of the same file, without the cookie    *)
(* step).                                                                   *)
(*                                                                         *)
(* Strings are sequences of one-character tokens, so that the regex strip, *)
(* the separator rewriting and parseFloat are computed, not assumed.       *)
(* Numbers are exact decimal fractions [nan, n, d] meaning n/d with d a    *)
(* power of ten, kept in lowest decimal form; NaN has nan = TRUE.  (The    *)
(* IEEE rounding of the doubles is not modelled: the arithmetic is exact.) *)
(***************************************************************************)
EXTENDS Integers, Sequences, FiniteSets, TLC

\* ------------------------------------------------------------------ bounds
\* longest string of the exhaustive price-string enumeration
MaxLen == 3
\* most item cards on an enumerated page
MaxCards == 2
\* length of the one long page (more accepted items than `data` returns)
MaxLong == 51

\* --------------------------------------------------------------- characters
Digits == {"0", "1", "2", "3", "4", "5", "6", "7", "8", "9"}

\* "manat" stands for the one character U+20BC, " " for a space
Manat == "manat"

DigitVal(c) ==
    CASE c = "0" -> 0 [] c = "1" -> 1 [] c = "2" -> 2 [] c = "3" -> 3
      [] c = "4" -> 4 [] c = "5" -> 5 [] c = "6" -> 6 [] c = "7" -> 7
      [] c = "8" -> 8 [] c = "9" -> 9

\* the JS value undefined, where a string is expected
Undefined == <<"undefined">>

\* !str : undefined and '' are falsy, every other string is truthy
Falsy(str) == str = Undefined \/ str = <<>>

\* ------------------------------------------------------------------ numbers
NaN == [nan |-> TRUE, n |-> 0, d |-> 1]

RECURSIVE Lowest(_, _)
Lowest(n, d) ==
    IF d > 1 /\ n % 10 = 0 THEN Lowest(n \div 10, d \div 10)
    ELSE [nan |-> FALSE, n |-> n, d |-> d]

Num(n, d) == Lowest(n, d)

Zero == Num(0, 1)

\* a > b on doubles: false as soon as one side is NaN
Gt(a, b) == ~a.nan /\ ~b.nan /\ a.n * b.d > b.n * a.d

\* x === 0
IsZero(x) == ~x.nan /\ x.n = 0

\* ------------------------------------------------------- string operations
Includes(s, c) == \E i \in 1..Len(s) : s[i] = c

IsKept(c) == c \in Digits \cup {",", "."}

\* str.replace(/[^0-9,.]/g, '')
Strip(str) == SelectSeq(str, IsKept)

IsNotDot(c) == c # "."

\* s.replace(/\./g, '')
RemoveDots(s) == SelectSeq(s, IsNotDot)

\* s.replace(',', '.') : a string pattern replaces the first occurrence only
ReplaceFirstComma(s) ==
    IF ~Includes(s, ",") THEN s
    ELSE LET k == CHOOSE i \in 1..Len(s) :
                      s[i] = "," /\ \A j \in 1..(i - 1) : s[j] # ","
         IN [i \in 1..Len(s) |-> IF i = k THEN "." ELSE s[i]]

\* number of leading digits of s from position i on
RECURSIVE DigitRun(_, _)
DigitRun(s, i) ==
    IF i <= Len(s) /\ s[i] \in Digits THEN 1 + DigitRun(s, i + 1) ELSE 0

RECURSIVE DigitsValue(_)
DigitsValue(s) ==
    IF s = <<>> THEN 0
    ELSE 10 * DigitsValue(SubSeq(s, 1, Len(s) - 1)) + DigitVal(s[Len(s)])

RECURSIVE Pow10(_)
Pow10(k) == IF k = 0 THEN 1 ELSE 10 * Pow10(k - 1)

\* parseFloat on a string of digits, '.' and ',': the longest leading
\* decimal literal (digits, optionally '.' and digits), NaN when it has no
\* digit; whatever follows is ignored
parseFloat(s) ==
    LET ip == DigitRun(s, 1)
        dot == ip < Len(s) /\ s[ip + 1] = "."
        fp == IF dot THEN DigitRun(s, ip + 2) ELSE 0
        ds == SubSeq(s, 1, ip) \o (IF dot THEN SubSeq(s, ip + 2, ip + 1 + fp) ELSE <<>>)
    IN IF ip + fp = 0 THEN NaN ELSE Num(DigitsValue(ds), Pow10(fp))

\* (parseTRPrice, defined beside cleanAndParse, is never called.)

cleanAndParse(str) ==
    IF Falsy(str) THEN Zero
    ELSE LET s == Strip(str)
         IN IF Includes(s, ",") /\ Includes(s, ".")
            THEN parseFloat(ReplaceFirstComma(RemoveDots(s)))
            ELSE IF Includes(s, ",")
                 THEN parseFloat(ReplaceFirstComma(s))
                 ELSE parseFloat(s)

\* Math.round of the non-negative fraction num/den: floor(x + 1/2)
MathRound(num, den) == (2 * num + den) \div (2 * den)

\* the guard of the discount computation
DiscountGuard(orgPrice, price) == Gt(orgPrice, price) /\ Gt(orgPrice, Zero)

\* Math.round(discount), with discount = ((orgPrice - price) / orgPrice) * 100
\* under the guard and 0 otherwise
DiscountRate(orgPrice, price) ==
    IF DiscountGuard(orgPrice, price)
    THEN MathRound(100 * (orgPrice.n * price.d - price.n * orgPrice.d),
                   orgPrice.n * price.d)
    ELSE 0

\* the record one element of products.map(...) returns
ProductRecord(p, platformKey) ==
    LET price == cleanAndParse(p.priceStr)
        parsedOrg == cleanAndParse(p.orgPriceStr)
        orgPrice == IF IsZero(parsedOrg) THEN price ELSE parsedOrg
    IN [title |-> p.title,
        price |-> price,
        original_price |-> orgPrice,
        discount_rate |-> DiscountRate(orgPrice, price),
        image_url |-> p.img,
        product_url |-> p.link,
        platform |-> platformKey,
        external_id |-> p.link]

\* the predicate of .filter(...)
MinDiscount == 40

\* (a filter that drops the boundary: > in place of >=)
Keep_AboveOnly(rec) == rec.discount_rate > MinDiscount /\ Gt(rec.price, Zero)

Keep(rec) == rec.discount_rate >= MinDiscount /\ Gt(rec.price, Zero)


\* validProducts.slice(0, 50) and products.slice(0, 10)
DataLimit == 50
DebugLimit == 10

Slice(seq, limit) == SubSeq(seq, 1, IF Len(seq) < limit THEN Len(seq) ELSE limit)

\* products.map(...).filter(...)
RECURSIVE ValidProducts(_, _)
ValidProducts(items, platformKey) ==
    IF items = <<>> THEN <<>>
    ELSE LET rec == ProductRecord(Head(items), platformKey)
             rest == ValidProducts(Tail(items), platformKey)
         IN IF Keep(rec) THEN <<rec>> \o rest ELSE rest

\* ---------------------------------------------------------------- registry
CONFIG ==
    [trendyol |-> [url |-> "https://www.trendyol.com/sr", selector |-> ".product-card-jfy"],
     temu |-> [url |-> "https://www.temu.com/az/channel", selector |-> ".goods-item"]]

\* properties every object literal inherits from Object.prototype
ObjectPrototypeKeys == {"constructor", "__proto__"}

\* CONFIG[platformKey]: an own property, else an inherited one (an object or
\* a function: truthy, and without url or selector), else undefined
Lookup(platformKey) ==
    IF platformKey \in DOMAIN CONFIG
    THEN [truthy |-> TRUE, url |-> CONFIG[platformKey].url]
    ELSE IF platformKey \in ObjectPrototypeKeys
         THEN [truthy |-> TRUE, url |-> "undefined"]
         ELSE [truthy |-> FALSE, url |-> "undefined"]

\* ------------------------------------------------------------------- store
\* the options of the upsert call
onConflict == {"platform", "external_id"}

\* (the call without ignoreDuplicates: a conflicting row is overwritten)
ignoreDuplicates_Off == FALSE

ignoreDuplicates == TRUE

\* supabase ... .upsert(prod, {onConflict, ignoreDuplicates}).select() against
\* the table products, whose unique constraint is the conflict target:
\* INSERT ... ON CONFLICT (platform, external_id) DO NOTHING RETURNING *.
\* The client resolves to {data, error} and does not throw: a store failure
\* is an error with null data, an ignored duplicate is an empty array with
\* no error, an insert is the array of the new row.
Upsert(st, prod, fault) ==
    LET hit == {row \in st : \A col \in onConflict : row[col] = prod[col]}
    IN IF fault
       THEN [store |-> st, data |-> <<>>, dataNull |-> TRUE, error |-> TRUE]
       ELSE IF hit = {}
            THEN [store |-> st \cup {prod}, data |-> <<prod>>, dataNull |-> FALSE, error |-> FALSE]
            ELSE IF ignoreDuplicates
                 THEN [store |-> st, data |-> <<>>, dataNull |-> FALSE, error |-> FALSE]
                 ELSE [store |-> (st \ hit) \cup {prod}, data |-> <<prod>>,
                       dataNull |-> FALSE, error |-> FALSE]

\* data[0], undefined on an empty array
UndefinedRow == [undefined |-> TRUE]
First(data) == IF data = <<>> THEN UndefinedRow ELSE data[1]

\* if (!error && data) savedItems.push(data[0]): every array is truthy,
\* the empty one too
\* (a loop that counts every call, failed or not)
PushSaved_Always(saved, res) == Append(saved, First(res.data))

PushSaved(saved, res) ==
    IF ~res.error /\ ~res.dataNull THEN Append(saved, First(res.data)) ELSE saved

\* ------------------------------------------------------------- return values
NoResult == [pending |-> TRUE]
ErrorBody(msg) == [error |-> msg]

SuccessBody(prods, valid, saved) ==
    [status |-> "success",
     total_found |-> Len(prods),
     filtered_count |-> Len(valid),
     saved_count |-> Len(saved),
     data |-> Slice(valid, DataLimit),
     debug_raw_data |-> Slice(prods, DebugLimit)]


\* ------------------------------------------------------------------ inputs
S60 == <<"6", "0">>
S61 == <<"6", "1">>
S100 == <<"1", "0", "0">>
S80Manat == <<"8", "0", " ", Manat>>
S160Manat == <<"1", "6", "0", " ", Manat>>
S28c07Manat == <<"2", "8", ",", "0", "7", " ", Manat>>
S1d250c50 == <<"1", ".", "2", "5", "0", ",", "5", "0">>
S28c07 == <<"2", "8", ",", "0", "7">>
S1d200 == <<"1", ".", "2", "0", "0">>
STL == <<"T", "L">>
SManat == <<Manat>>

RawItem(priceStr, orgPriceStr, link) ==
    [title |-> "brand name", priceStr |-> priceStr, orgPriceStr |-> orgPriceStr,
     link |-> link, img |-> "img"]

\* two cards of one listing, at 40% (on the boundary) and at 50%
SameLinkCards ==
    {RawItem(S60, S100, "https://www.trendyol.com/a"),
     RawItem(S80Manat, S160Manat, "https://www.trendyol.com/a")}

\* and two of other listings: 39%, just under the boundary, and a deep discount
Cards ==
    SameLinkCards \cup
    {RawItem(S61, S100, "https://www.trendyol.com/b"),
     RawItem(S28c07Manat, S1d250c50, "https://www.trendyol.com/c")}

RECURSIVE SeqsUpTo(_, _)
SeqsUpTo(S, n) ==
    IF n = 0 THEN {<<>>}
    ELSE LET shorter == SeqsUpTo(S, n - 1)
         IN shorter \cup {Append(q, x) : q \in {t \in shorter : Len(t) = n - 1}, x \in S}

Pages == SeqsUpTo(Cards, MaxCards)

\* the pages of two overlapping requests: the same listing, scraped again
SameLinkPages == SeqsUpTo(SameLinkCards, MaxCards)

\* one page of MaxLong cards that all pass the filter
LongPages == {[i \in 1..MaxLong |-> RawItem(S60, S100, "https://www.trendyol.com/a")]}

\* the keys a request may carry in :platform
PlatformKeys == {"trendyol", "temu", "foo", "constructor", "__proto__"}

Reqs == {"r1", "r2"}

\* ------------------------------------------------------------------- state
VARIABLES
    variant,        \* which of the two source files the process runs
    alive,          \* the Node process is running
    pc,             \* per request: where its handler is suspended
    platformKey,    \* per request: req.params.platform
    browser,        \* per request: "none", "open" or "closed"
    navigated,      \* per request: page.goto started a navigation
    products,       \* per request: the extracted raw items
    validProducts,  \* per request: the records that passed the filter
    idx,            \* per request: position of the for-of loop
    savedItems,     \* per request: the savedItems array
    calls,          \* per request: the records upsert was called with, in order
    returned,       \* per request: upsert calls that came back
    faults,         \* per request: upsert calls the store failed
    storeErrors,    \* per request: upsert calls that came back with an error
    inserted,       \* per request: rows the store inserted for this cycle
    result,         \* per request: the value scrape returns
    response,       \* per request: the responses sent, in order
    store,          \* the rows of table products
    raw,            \* normalisation alone: the raw item
    built           \* normalisation alone: the record built from it, once built

vars ==
    <<variant, alive, pc, platformKey, browser, navigated, products, validProducts,
      idx, savedItems, calls, returned, faults, storeErrors, inserted, result, response, store, raw, built>>

serverVars ==
    <<variant, alive, pc, platformKey, browser, navigated, products, validProducts,
      idx, savedItems, calls, returned, faults, storeErrors, inserted, result, response, store>>

NotBuilt == [pending |-> TRUE]

InitServer ==
    /\ variant \in {"server.js", "part_000"}
    /\ alive = TRUE
    /\ pc = [r \in Reqs |-> "idle"]
    /\ platformKey = [r \in Reqs |-> "none"]
    /\ browser = [r \in Reqs |-> "none"]
    /\ navigated = [r \in Reqs |-> FALSE]
    /\ products = [r \in Reqs |-> <<>>]
    /\ validProducts = [r \in Reqs |-> <<>>]
    /\ idx = [r \in Reqs |-> 0]
    /\ savedItems = [r \in Reqs |-> <<>>]
    /\ calls = [r \in Reqs |-> <<>>]
    /\ returned = [r \in Reqs |-> 0]
    /\ faults = [r \in Reqs |-> 0]
    /\ storeErrors = [r \in Reqs |-> 0]
    /\ inserted = [r \in Reqs |-> 0]
    /\ result = [r \in Reqs |-> NoResult]
    /\ response = [r \in Reqs |-> <<>>]
    /\ store = {}

Init ==
    /\ InitServer
    /\ raw = RawItem(<<>>, <<>>, "none")
    /\ built = NotBuilt

\* ------------------------------------------------------------------ actions
\* a step of request r that touches only its control state
Goes(r, to) ==
    /\ pc' = [pc EXCEPT ![r] = to]
    /\ UNCHANGED <<variant, alive, platformKey, navigated, products, validProducts,
                   idx, savedItems, calls, returned, faults, storeErrors, inserted, response, store, raw, built>>

\* an awaited call before the try block rejects: scrape rejects, nothing
\* is caught and no finally runs
Escapes(r) ==
    /\ Goes(r, "rejected")
    /\ UNCHANGED <<browser, result>>

\* an awaited call inside the try block rejects: catch returns
\* {error: e.message} and finally calls browser.close()
Caught(r, msg) ==
    /\ Goes(r, "closing")
    /\ result' = [result EXCEPT ![r] = ErrorBody(msg)]
    /\ UNCHANGED browser

\* the handler is invoked and scrape runs to its first await
Request(r, key) ==
    /\ alive
    /\ pc[r] = "idle"
    /\ platformKey' = [platformKey EXCEPT ![r] = key]
    /\ IF ~Lookup(key).truthy
       THEN /\ pc' = [pc EXCEPT ![r] = "respond"]
            /\ result' = [result EXCEPT ![r] = ErrorBody("Platform not supported")]
       ELSE /\ pc' = [pc EXCEPT ![r] = "launch"]
            /\ UNCHANGED result
    /\ UNCHANGED <<variant, alive, browser, navigated, products, validProducts, idx,
                   savedItems, calls, returned, faults, storeErrors, inserted, response, store, raw, built>>

\* await chromium.launch(...)
Launch(r) ==
    /\ alive
    /\ pc[r] = "launch"
    /\ \/ /\ Goes(r, "newContext")
          /\ browser' = [browser EXCEPT ![r] = "open"]
          /\ UNCHANGED result
       \/ Escapes(r)

\* await browser.newContext(...)
NewContext(r) ==
    /\ alive
    /\ pc[r] = "newContext"
    /\ \/ /\ Goes(r, IF variant = "server.js" THEN "addCookies" ELSE "newPage")
          /\ UNCHANGED <<browser, result>>
       \/ Escapes(r)

\* await context.addCookies(...)
AddCookies(r) ==
    /\ alive
    /\ pc[r] = "addCookies"
    /\ \/ /\ Goes(r, "newPage")
          /\ UNCHANGED <<browser, result>>
       \/ Escapes(r)

\* await context.newPage(), then the try block is entered
NewPage(r) ==
    /\ alive
    /\ pc[r] = "newPage"
    /\ \/ /\ Goes(r, "goto")
          /\ UNCHANGED <<browser, result>>
       \/ Escapes(r)


\* await page.goto(config.url, ...): a url that is not a string is refused
\* before any navigation; a navigation may time out
Goto(r) ==
    /\ alive
    /\ pc[r] = "goto"
    /\ IF Lookup(platformKey[r]).url = "undefined"
       THEN /\ Caught(r, "url: expected string, got undefined")
            /\ UNCHANGED navigated
       ELSE /\ navigated' = [navigated EXCEPT ![r] = TRUE]
            /\ UNCHANGED <<variant, alive, platformKey, browser, products, validProducts, idx,
                           savedItems, calls, returned, faults, storeErrors, inserted, response, store, raw, built>>
            /\ \/ /\ pc' = [pc EXCEPT ![r] = "scroll"]
                  /\ UNCHANGED result
               \/ /\ pc' = [pc EXCEPT ![r] = "closing"]
                  /\ result' = [result EXCEPT ![r] = ErrorBody("page.goto: Timeout 60000ms exceeded")]

\* await page.evaluate(scrollBy)
Scroll(r) ==
    /\ alive
    /\ pc[r] = "scroll"
    /\ \/ /\ Goes(r, "settle")
          /\ UNCHANGED <<browser, result>>
       \/ Caught(r, "page.evaluate failed")

\* await page.waitForTimeout(3000)
Settle(r) ==
    /\ alive
    /\ pc[r] = "settle"
    /\ \/ /\ Goes(r, "extract")
          /\ UNCHANGED <<browser, result>>
       \/ Caught(r, "page.waitForTimeout failed")

\* the return statement of the try block, then finally calls browser.close()
Returns(r, prods, valid, saved) ==
    /\ pc' = [pc EXCEPT ![r] = "closing"]
    /\ result' = [result EXCEPT ![r] = SuccessBody(prods, valid, saved)]

\* await page.evaluate(extract) resolves with the raw items of `page`; map
\* and filter run, and the loop issues its first upsert (or returns at once)
Extracted(r, page) ==
    LET valid == ValidProducts(page, platformKey[r])
    IN /\ products' = [products EXCEPT ![r] = page]
       /\ validProducts' = [validProducts EXCEPT ![r] = valid]
       /\ IF valid = <<>>
          THEN /\ Returns(r, page, valid, savedItems[r])
               /\ UNCHANGED <<idx, calls>>
          ELSE /\ pc' = [pc EXCEPT ![r] = "upsert"]
               /\ idx' = [idx EXCEPT ![r] = 1]
               /\ calls' = [calls EXCEPT ![r] = <<valid[1]>>]
               /\ UNCHANGED result
       /\ UNCHANGED <<variant, alive, platformKey, browser, navigated, savedItems,
                      returned, faults, storeErrors, inserted, response, store, raw, built>>

Extract(r, pages) ==
    /\ alive
    /\ pc[r] = "extract"
    /\ \/ \E page \in pages : Extracted(r, page)
       \/ Caught(r, "page.evaluate failed")

\* the awaited upsert of validProducts[idx] comes back; the loop body
\* finishes and the loop issues the next upsert, or the function returns
UpsertReturn(r) ==
    /\ alive
    /\ pc[r] = "upsert"
    /\ \E fault \in BOOLEAN :
         LET prod == validProducts[r][idx[r]]
             res == Upsert(store, prod, fault)
             saved == PushSaved(savedItems[r], res)
         IN /\ store' = res.store
            /\ returned' = [returned EXCEPT ![r] = @ + 1]
            /\ faults' = [faults EXCEPT ![r] = @ + (IF fault THEN 1 ELSE 0)]
            /\ savedItems' = [savedItems EXCEPT ![r] = saved]
            /\ storeErrors' = [storeErrors EXCEPT ![r] = @ + (IF res.error THEN 1 ELSE 0)]
            /\ inserted' = [inserted EXCEPT ![r] = @ + Cardinality(res.store \ store)]
            /\ IF idx[r] < Len(validProducts[r])
               THEN /\ idx' = [idx EXCEPT ![r] = @ + 1]
                    /\ calls' = [calls EXCEPT ![r] = Append(@, validProducts[r][idx[r] + 1])]
                    /\ UNCHANGED <<pc, result>>
               ELSE /\ Returns(r, products[r], validProducts[r], saved)
                    /\ UNCHANGED <<idx, calls>>
    /\ UNCHANGED <<variant, alive, platformKey, browser, navigated, products,
                   validProducts, response, raw, built>>

\* finally: await browser.close(), taken to resolve (the teardown itself
\* failing is not modelled); then scrape resolves with the value returned
Close(r) ==
    /\ alive
    /\ pc[r] = "closing"
    /\ Goes(r, "respond")
    /\ browser' = [browser EXCEPT ![r] = "closed"]
    /\ UNCHANGED result

\* the handler resumes with the result: res.json(result)
Respond(r) ==
    /\ alive
    /\ pc[r] = "respond"
    /\ pc' = [pc EXCEPT ![r] = "done"]
    /\ response' = [response EXCEPT ![r] = Append(@, [type |-> "json", body |-> result[r]])]
    /\ UNCHANGED <<variant, alive, platformKey, browser, navigated, products, validProducts,
                   idx, savedItems, calls, returned, faults, storeErrors, inserted, result, store, raw, built>>

\* the handler's await of a rejected scrape throws and the async handler
\* rejects.  What follows is the runtime's: the rejection is dropped and the
\* request stays unanswered, or a router that observes the handler's promise
\* answers with its default error page, or the unhandled rejection ends the
\* process and with it every request in flight.
Unhandled(r) ==
    /\ alive
    /\ pc[r] = "rejected"
    /\ UNCHANGED <<variant, platformKey, browser, navigated, products, validProducts, idx,
                   savedItems, calls, returned, faults, storeErrors, inserted, result, store, raw, built>>
    /\ \/ /\ pc' = [pc EXCEPT ![r] = "abandoned"]
          /\ UNCHANGED <<alive, response>>
       \/ /\ pc' = [pc EXCEPT ![r] = "done"]
          /\ response' = [response EXCEPT ![r] = Append(@, [type |-> "html", body |-> NoResult])]
          /\ UNCHANGED alive
       \/ /\ pc' = [pc EXCEPT ![r] = "abandoned"]
          /\ alive' = FALSE
          /\ UNCHANGED response

Step(r, pages) ==
    \/ \E key \in PlatformKeys : Request(r, key)
    \/ Launch(r)
    \/ NewContext(r)
    \/ AddCookies(r)
    \/ NewPage(r)
    \/ Goto(r)
    \/ Scroll(r)
    \/ Settle(r)
    \/ Extract(r, pages)
    \/ UpsertReturn(r)
    \/ Close(r)
    \/ Respond(r)
    \/ Unhandled(r)

Next == \E r \in Reqs : Step(r, SameLinkPages)

Spec == Init /\ [][Next]_vars

\* one request alone, on any page, the long one too
NextSolo == Step("r1", Pages \cup LongPages)

SpecSolo == Init /\ [][NextSolo]_vars

\* ---------------------------------------------------- normalisation alone
Alphabet == {"0", "1", "5", ".", ",", "T"}

Examples ==
    {<<>>, S60, S61, S100, S80Manat, S160Manat, S1d250c50, S28c07, S1d200, STL, SManat,
     <<"0">>}

\* what the map callback may be handed: every short string as the price,
\* beside an original price that is a plain number or the price itself
\* (the extractor's default), and every pair of the examples whose
\* original string is empty only when the price string is
NormInputs ==
    {RawItem(s, o, "https://www.trendyol.com/a") :
        s \in SeqsUpTo(Alphabet, MaxLen), o \in {S100, <<"1">>}}
    \cup {RawItem(s, s, "https://www.trendyol.com/a") : s \in SeqsUpTo(Alphabet, MaxLen) \cup {Undefined}}
    \cup {RawItem(s, o, "https://www.trendyol.com/a") :
             s \in Examples, o \in {x \in Examples : x # <<>>}}

InitNorm ==
    /\ InitServer
    /\ variant = "server.js"
    /\ raw \in NormInputs
    /\ built = NotBuilt

\* one call of the products.map callback
Normalize ==
    /\ built = NotBuilt
    /\ built' = ProductRecord(raw, "trendyol")
    /\ UNCHANGED <<raw, serverVars>>

SpecNorm == InitNorm /\ [][Normalize]_vars


\* =================================================================== claims
\* ------------------------------------------------------- helpers of claims
IsDigit(c) == c \in Digits
IsDot(c) == c = "."

HasDigit(str) == str # Undefined /\ \E i \in 1..Len(str) : str[i] \in Digits

\* the string the normalisation is said to write: every ',' becomes '.'
\* (after the '.' are removed when both appear)
SaidNormal(str) ==
    LET s == Strip(str)
        t == IF Includes(s, ",") /\ Includes(s, ".") THEN RemoveDots(s) ELSE s
    IN [i \in 1..Len(t) |-> IF t[i] = "," THEN "." ELSE t[i]]

\* t writes a number: digits with at most one '.', and at least one digit
WritesNumber(t) ==
    /\ \A i \in 1..Len(t) : t[i] \in Digits \cup {"."}
    /\ Len(SelectSeq(t, IsDot)) <= 1
    /\ Len(SelectSeq(t, IsDigit)) >= 1

\* the number t writes
Written(t) ==
    LET k == IF Includes(t, ".") THEN CHOOSE i \in 1..Len(t) : t[i] = "." ELSE Len(t)
    IN Num(DigitsValue(SelectSeq(t, IsDigit)), Pow10(Len(t) - k))

\* the number written by the longest prefix of t that writes one; NaN if none
LeadingNumber(t) ==
    LET ks == {k \in 1..Len(t) : WritesNumber(SubSeq(t, 1, k))}
    IN IF ks = {} THEN NaN
       ELSE Written(SubSeq(t, 1, CHOOSE k \in ks : \A j \in ks : j <= k))

\* round(x) of x = 100 * (o - p) / o, for o > p >= 0
RoundedPercent(o, p) ==
    LET num == 100 * (o.n * p.d - p.n * o.d)
        den == o.n * p.d
    IN CHOOSE k \in 0..100 : 2 * den * k <= 2 * num + den /\ 2 * num + den < 2 * den * (k + 1)

IsBuilt == built # NotBuilt

\* C7: every record built by the normalisation has discount_rate =
\* round((original_price - price) / original_price * 100) when
\* original_price > price > 0, and discount_rate = 0 in every other case
\* (price = 0 under a positive original price included).
C7_DiscountRateInvariant ==
    IsBuilt =>
        IF Gt(built.original_price, built.price) /\ Gt(built.price, Zero)
        THEN built.discount_rate = RoundedPercent(built.original_price, built.price)
        ELSE built.discount_rate = 0

\* C9 as stated: for a price string with a digit, cleanAndParse returns a
\* number, the one the normalised string writes.
C9_ReturnsNumberWritten ==
    (IsBuilt /\ HasDigit(raw.priceStr)) =>
        /\ ~built.price.nan
        /\ WritesNumber(SaidNormal(raw.priceStr)) =>
               built.price = Written(SaidNormal(raw.priceStr))

\* What does hold of C9's inputs (a companion fact, not the claim): the
\* result is the number written by the longest leading numeral of the
\* normalised string (the whole string when it writes one number), and NaN
\* when no prefix writes a number ("..5").  "1.250,50" yields 1250.5,
\* "28,07" 28.07, "80 (manat)" 80 and "1.200" 1.2.
ReturnsLeadingNumber ==
    (IsBuilt /\ HasDigit(raw.priceStr)) =>
        /\ built.price = LeadingNumber(SaidNormal(raw.priceStr))
        /\ raw.priceStr = S1d250c50 => built.price = [nan |-> FALSE, n |-> 12505, d |-> 10]
        /\ raw.priceStr = S28c07 => built.price = [nan |-> FALSE, n |-> 2807, d |-> 100]
        /\ raw.priceStr = S80Manat => built.price = [nan |-> FALSE, n |-> 80, d |-> 1]
        /\ raw.priceStr = S1d200 => built.price = [nan |-> FALSE, n |-> 12, d |-> 10]

\* C10: a price input with no digit (empty, undefined, or only non-digit
\* characters) parses to 0, so the price is 0 and the item is dropped
\* whatever its original price; and an original price that parses to 0 is
\* replaced by the sale price, with a 0% discount.
C10_NoDigitYieldsZero ==
    IsBuilt =>
        /\ ~HasDigit(raw.priceStr) => (built.price = Zero /\ ~Keep(built))
        /\ IsZero(cleanAndParse(raw.orgPriceStr)) =>
               (built.original_price = built.price /\ built.discount_rate = 0)


\* ----------------------------------------------------- the server's claims
Registry == {"trendyol", "temu"}

\* scrape(platformKey) has ended for r: resolved or rejected
Ended(r) == pc[r] \in {"respond", "done", "rejected", "abandoned"}

\* r was answered with the success body
Succeeded(r) ==
    /\ pc[r] = "done"
    /\ response[r] # <<>>
    /\ response[r][1].type = "json"
    /\ "status" \in DOMAIN response[r][1].body

\* the records of r's raw items with discount_rate >= 40 and price > 0, in order
RECURSIVE AcceptedOf(_, _)
AcceptedOf(items, key) ==
    IF items = <<>> THEN <<>>
    ELSE LET rec == ProductRecord(Head(items), key)
             rest == AcceptedOf(Tail(items), key)
         IN IF rec.discount_rate >= 40 /\ Gt(rec.price, Zero)
            THEN <<rec>> \o rest ELSE rest

\* C1: once an invocation of scrape has ended, on whatever path, the
\* browser it launched is not left open.
C1_BrowserClosedOnEveryExit ==
    \A r \in Reqs : Ended(r) => browser[r] # "open"

\* C2: no exception escapes the handler, and a request whose handler has
\* ended received exactly one response, a JSON one, whose body carries only
\* an error field when the cycle failed.
C2_AlwaysOneJsonResponse ==
    \A r \in Reqs :
        /\ pc[r] # "rejected"
        /\ pc[r] \in {"done", "abandoned"} =>
               /\ Len(response[r]) = 1
               /\ response[r][1].type = "json"
               /\ "status" \notin DOMAIN response[r][1].body =>
                      DOMAIN response[r][1].body = {"error"}

\* C3: a request for a key outside the registry returns
\* {error: 'Platform not supported'} at once: no browser is launched, no
\* navigation happens, no upsert is issued.
C3_UnknownPlatformRejected ==
    \A r \in Reqs :
        (pc[r] # "idle" /\ platformKey[r] \notin Registry) =>
            /\ result[r] = [error |-> "Platform not supported"]
            /\ browser[r] = "none"
            /\ ~navigated[r]
            /\ calls[r] = <<>>


\* no two rows of st share (platform, external_id)
OneRowPerKey(st) ==
    \A a, b \in st :
        (a.platform = b.platform /\ a.external_id = b.external_id) => a = b

KeyPresent(st, prod) ==
    \E row \in st : row.platform = prod.platform /\ row.external_id = prod.external_id

\* C4: the store never holds two rows with one (platform, external_id); and
\* an upsert of a record whose key is already present (from an earlier
\* cycle, a concurrent one, or an earlier card of the same cycle) leaves the
\* store as it was and, unless the store itself failed, reports no error.
C4_OneRowPerKey ==
    [][/\ OneRowPerKey(store')
       /\ \A r \in Reqs :
              (returned'[r] # returned[r] /\ KeyPresent(store, validProducts[r][idx[r]])) =>
                  /\ store' = store
                  /\ faults'[r] = faults[r] => storeErrors'[r] = storeErrors[r]]_vars

\* a cycle ended well after upserting the same listing twice, at two
\* prices, with no store failure: one row, the first one
C4_Witness ==
    \E r \in Reqs :
        /\ Succeeded(r)
        /\ Len(calls[r]) = 2
        /\ calls[r][1].external_id = calls[r][2].external_id
        /\ calls[r][1].price # calls[r][2].price
        /\ faults[r] = 0
        /\ storeErrors[r] = 0
        /\ store = {calls[r][1]}

\* C5: upsert is called once per accepted product, in the order of the
\* accepted list, each call after the previous one came back; a call that
\* fails with a store error is left out of saved_count, the loop goes on to
\* the remaining records, and a cycle that reached persistence ends with
\* the success response.
C5_SequentialTolerantUpserts ==
    \A r \in Reqs :
        /\ Len(calls[r]) = returned[r] + (IF pc[r] = "upsert" THEN 1 ELSE 0)
        /\ Len(calls[r]) <= Len(validProducts[r])
        /\ calls[r] = SubSeq(validProducts[r], 1, Len(calls[r]))
        /\ storeErrors[r] = faults[r]
        /\ Len(savedItems[r]) <= returned[r] - storeErrors[r]
        /\ (pc[r] = "done" /\ calls[r] # <<>>) =>
               /\ Succeeded(r)
               /\ calls[r] = AcceptedOf(products[r], platformKey[r])
               /\ response[r][1].body.saved_count <= Len(calls[r]) - storeErrors[r]

\* the first of two upserts failed, the second was made all the same and
\* saved its row, and the cycle ended well with saved_count 1
C5_Witness ==
    \E r \in Reqs :
        /\ Succeeded(r)
        /\ Len(calls[r]) = 2
        /\ calls[r][1].price # calls[r][2].price
        /\ storeErrors[r] = 1
        /\ store = {calls[r][2]}
        /\ response[r][1].body.saved_count = 1

\* C6: in a success response total_found is the number of cards extracted,
\* filtered_count the number that passed the filter and saved_count the
\* number of records the store saved for this cycle, so that
\* saved_count <= filtered_count <= total_found.
C6_CountsAreExact ==
    \A r \in Reqs :
        Succeeded(r) =>
            LET body == response[r][1].body
            IN /\ body.total_found = Len(products[r])
               /\ body.filtered_count = Len(AcceptedOf(products[r], platformKey[r]))
               /\ body.saved_count = inserted[r]
               /\ body.saved_count <= body.filtered_count
               /\ body.filtered_count <= body.total_found

\* every record of seq has discount_rate >= 40 and price > 0
AllDeep(seq) ==
    \A i \in 1..Len(seq) : seq[i].discount_rate >= 40 /\ Gt(seq[i].price, Zero)

====
